---- MODULE Spec2Model ----
(***************************************************************************)
(* Pulse AI backend: the mood-snapshot pipeline.                           *)
(*                                                                         *)
(*   services/backend/app/api/mood.py     classifier, persistence,         *)
(*                                        snapshot and history endpoints   *)
(*   services/backend/app/api/chat.py     chat-side classifier             *)
(*   services/backend/app/ai-utils.py     keyword heuristic                *)
(*   services/worker/app/tasks.py         job-channel listener             *)
(*                                                                         *)
(* Three specifications:                                                   *)
(*   SpecClassify  the three classification functions applied to inputs    *)
(*                 drawn in Init (text, credential, endpoint outcome);     *)
(*   SpecSubmit    one POST /api/mood request over the full range of its   *)
(*                 inputs and of the outcomes of the services it calls;    *)
(*   Spec          the snapshot store driven by the two HTTP handlers      *)
(*                 over several requests;                                  *)
(*   SpecAuth      one request to a protected endpoint, over the headers   *)
(*                 it may carry and the identity provider's answers;       *)
(*   SpecFanout    the two recommendation fan-outs, step by step;          *)
(*   SpecChat      POST /api/chat over a populated chatmessage table;      *)
(*   SpecCallback  the worker's transcription task against the router.     *)
(***************************************************************************)
EXTENDS Integers, Sequences, FiniteSets, TLC

VARIABLES
    cText,          \* classifier input text
    cfg,            \* which credentials the process environment holds
    cReply,         \* what the inference endpoint does when it is called
    cOut,           \* outcome of the last classification call
    mood_snapshot,  \* rows of table mood_snapshot (primary)
    chatmessage,    \* rows of table chatmessage (secondary)
    channel,        \* messages published on pulse:transcribe_jobs
    nextId,         \* number of uuid4() values drawn so far
    clock,          \* datetime.utcnow()
    response,       \* last response of POST /api/mood
    history,        \* response of GET /api/mood/history since the last submission
    log,            \* accepted submissions, oldest first
    auth,           \* a request passing get_current_user_dependency
    fan,            \* a recommendation fan-out in progress
    chat,           \* last request of POST /api/chat
    cb,             \* last run of the worker's transcription task
    wk              \* the worker's listeners, the job channel and the task queue

vars == << cText, cfg, cReply, cOut, mood_snapshot, chatmessage, channel,
           nextId, clock, response, history, log, auth, fan, chat, cb,
           wk >>

classifyVars == << cText, cfg, cReply, cOut >>
storeVars == << mood_snapshot, chatmessage, channel, nextId, clock, response,
                history, log >>
extraVars == << auth, fan, chat, cb, wk >>

-----------------------------------------------------------------------------
(* Values *)

\* Python None, where the other values of the field are strings.
NONE == "None"

\* Longest text, in tokens.
MaxTextLen == 3

\* A text is a sequence of tokens: a whitespace token or a word. The string
\* it denotes is the concatenation of its tokens; two words are never
\* adjacent, so that every maximal run of non-space characters is one word.
SPACE == " "
Words == {"anxious", "SAD", "happy", "unhappy", "angry", "tired", "neutral", "fine"}
Vocab == Words \cup {SPACE}

WellSpaced(s) == \A i \in 1..(Len(s) - 1) : s[i] = SPACE \/ s[i + 1] = SPACE

Texts == UNION { {s \in [1..n -> Vocab] : WellSpaced(s)} : n \in 0..MaxTextLen }

\* str.lower() of one token.
LowerTok(t) == IF t = "SAD" THEN "sad" ELSE t

\* str.lower()
Lower(s) == [i \in 1..Len(s) |-> LowerTok(s[i])]

\* `kw in w` for a keyword kw and a lower-cased word w of the vocabulary.
IsSubstr(kw, w) == kw = w \/ (kw = "happy" /\ w = "unhappy")

\* `kw in text` (substring test): keywords hold no whitespace, so a match
\* lies inside one word.
In(kw, s) == \E i \in 1..Len(s) : s[i] # SPACE /\ IsSubstr(kw, s[i])

\* any(word in text for word in kws)
AnyIn(kws, s) == \E kw \in kws : In(kw, s)

RECURSIVE Strip(_)
\* str.strip()
Strip(s) ==
    IF s = << >> THEN s
    ELSE IF Head(s) = SPACE THEN Strip(Tail(s))
    ELSE IF s[Len(s)] = SPACE THEN Strip(SubSeq(s, 1, Len(s) - 1))
    ELSE s

\* Truthiness of a str: the empty string is falsy.
Truthy(s) == s # << >>

-----------------------------------------------------------------------------
(* ai-utils.py: the keyword heuristic *)

CalmWords == {"happy", "joy", "grateful", "calm"}
SadWords == {"sad", "tired", "depressed", "upset"}
AngryWords == {"angry", "frustrated", "annoyed"}
AnxiousWords == {"anxious", "nervous", "worried"}

Pair(e, c) == [emotion |-> e, confidence |-> c]

\* Plausible slip: the anxious test moved in front of the others.
analyze_mood_text_AnxiousFirst(text) ==
    IF ~Truthy(text) THEN Pair("neutral", "0.5")
    ELSE LET text_lower == Lower(text) IN
         IF AnyIn(AnxiousWords, text_lower) THEN Pair("anxious", "0.88")
         ELSE IF AnyIn(CalmWords, text_lower) THEN Pair("calm", "0.9")
         ELSE IF AnyIn(SadWords, text_lower) THEN Pair("sad", "0.9")
         ELSE IF AnyIn(AngryWords, text_lower) THEN Pair("angry", "0.85")
         ELSE Pair("neutral", "0.7")

analyze_mood_text(text) ==
    IF ~Truthy(text) THEN Pair("neutral", "0.5")
    ELSE LET text_lower == Lower(text) IN
         IF AnyIn(CalmWords, text_lower) THEN Pair("calm", "0.9")
         ELSE IF AnyIn(SadWords, text_lower) THEN Pair("sad", "0.9")
         ELSE IF AnyIn(AngryWords, text_lower) THEN Pair("angry", "0.85")
         ELSE IF AnyIn(AnxiousWords, text_lower) THEN Pair("anxious", "0.88")
         ELSE Pair("neutral", "0.7")

-----------------------------------------------------------------------------
(* The inference endpoint, as the classifiers see it *)

Labels == {"happy", "sad", "anxious", "angry", "calm", "tired", "neutral"}

\* The order in which detect_emotion_text scans an unparseable reply.
LabelOrder == << "happy", "sad", "anxious", "angry", "calm", "tired", "neutral" >>

\* Values of the reply's "emotion" field; NONE: the field is absent or null.
EmotionJson == {"sad", "anxious", "excited", NONE}

\* Values of the reply's "confidence" field.
ConfJson == {"0.9", "\"high\"", "true", NONE}

\* Reply texts that are not a JSON object.
ReplyWords == { << >>, << "sad" >>, << "SAD" >>, << SPACE, "anxious", SPACE >>,
                << "unhappy", SPACE, "sad" >>, << "fine" >> }

\* message.content of a 200 reply:
\*   object  a JSON object with the two fields
\*   scalar  valid JSON that is not an object (a JSON string)
\*   text    not JSON
Contents ==
    [form : {"object"}, emotion : EmotionJson, confidence : ConfJson, words : {<< >>}]
    \cup [form : {"scalar", "text"}, emotion : {NONE}, confidence : {NONE},
          words : ReplyWords]

NoContent == [form |-> "text", emotion |-> NONE, confidence |-> NONE, words |-> << >>]

\* Outcomes of the POST to OPENAI_API_URL:
\*   exception    the client raises (network error, timeout)
\*   status       a status other than 200
\*   badbody      200, the body is not JSON
\*   nonobject    200, the body is JSON but not an object
\*   nochoices    200, "choices" is an empty list
\*   nullcontent  200, message.content is null
\*   content      200, message.content is a string
ReplyKinds == {"exception", "status", "badbody", "nonobject", "nochoices", "nullcontent"}

Replies ==
    [kind : ReplyKinds, content : {NoContent}]
    \cup [kind : {"content"}, content : Contents]

\* The call did not produce a usable classification: no credential, an
\* exception, a non-200 status, or a body that cannot be parsed.
CallFailed(key, reply) ==
    \/ ~key
    \/ reply.kind \in ReplyKinds
    \/ reply.kind = "content" /\ reply.content.form # "object"

-----------------------------------------------------------------------------
(* mood.py: detect_emotion_text *)

\* Result of a classification call. raised: the call ended with an exception
\* instead of a value; called: a request was sent to the inference endpoint.
Ret(e, c, called) == [raised |-> FALSE, emotion |-> e, confidence |-> c, called |-> called]
Raised(called) == [raised |-> TRUE, emotion |-> NONE, confidence |-> NONE, called |-> called]

\* isinstance(confidence, (int, float)) and float(confidence); bool is an int.
ConfOf(j) ==
    CASE j = "0.9" -> "0.9"
      [] j = "true" -> "1.0"
      [] OTHER -> NONE

RECURSIVE FirstLabelIn(_, _)
\* for e in [...]: if e in lower: return e
FirstLabelIn(order, lower) ==
    IF order = << >> THEN NONE
    ELSE IF In(Head(order), lower) THEN Head(order)
    ELSE FirstLabelIn(Tail(order), lower)

\* Lines 119-135: parse message.content, scanning it for a label when it is
\* not a JSON object.
ParseContent(c) ==
    IF c.form = "object"
    THEN Ret(c.emotion, ConfOf(c.confidence), TRUE)
    ELSE Ret(FirstLabelIn(LabelOrder, Lower(c.words)), NONE, TRUE)

\* Lines 85-135: the body of the try block.
DetectBody(reply) ==
    CASE reply.kind = "exception" -> Raised(TRUE)
      [] reply.kind = "status" -> Ret(NONE, NONE, TRUE)
      [] reply.kind \in {"badbody", "nonobject", "nochoices", "nullcontent"} -> Raised(TRUE)
      [] OTHER -> ParseContent(reply.content)

\* Plausible slip: no except clause around the call.
detect_emotion_text_NoExcept(text, key, reply) ==
    IF ~key \/ ~Truthy(text) THEN Ret(NONE, NONE, FALSE)
    ELSE DetectBody(reply)

detect_emotion_text(text, key, reply) ==
    IF ~key \/ ~Truthy(text) THEN Ret(NONE, NONE, FALSE)
    ELSE LET b == DetectBody(reply) IN
         IF b.raised THEN Ret(NONE, NONE, TRUE) ELSE b

-----------------------------------------------------------------------------
(* chat.py: detect_emotion_from_text *)

\* The first word of a JSON object's text.
JsonJunk == "{\"emotion\":"

\* reply.split()[0] if reply else None, for reply = content.strip().lower()
FirstWord(c) ==
    IF c.form = "object" THEN JsonJunk
    ELSE LET reply == Lower(Strip(c.words)) IN
         IF Truthy(reply) THEN Head(reply) ELSE NONE

\* Lines 62-91: the body of the try block.
DetectFromBody(reply) ==
    CASE reply.kind = "exception" -> Raised(TRUE)
      [] reply.kind = "status" -> Ret(NONE, NONE, TRUE)
      [] reply.kind \in {"badbody", "nonobject", "nochoices", "nullcontent"} -> Raised(TRUE)
      [] OTHER -> Ret(FirstWord(reply.content), NONE, TRUE)

detect_emotion_from_text(message, key, reply) ==
    IF ~key THEN Ret(NONE, NONE, FALSE)
    ELSE LET b == DetectFromBody(reply) IN
         IF b.raised THEN Ret(NONE, NONE, TRUE) ELSE b

-----------------------------------------------------------------------------
(* Outcome records of the classification calls *)
NoCall == [fn |-> "none", raised |-> FALSE, emotion |-> NONE, confidence |-> NONE,
           called |-> FALSE]

Tag(fn, r) == [fn |-> fn, raised |-> r.raised, emotion |-> r.emotion,
               confidence |-> r.confidence, called |-> r.called]

-----------------------------------------------------------------------------
(* mood.py: recommendation catalogues *)

\* Most items one catalogue answer holds.
MaxItems == 1

MOOD_TO_SPOTIFY_KEYWORDS(mood) ==
    CASE mood = "happy" -> << "upbeat", "feel good", "happy" >>
      [] mood = "sad" -> << "calm", "soothing", "sad" >>
      [] mood = "anxious" -> << "relaxing", "breath", "calm down" >>
      [] mood = "angry" -> << "calm down", "soothing" >>
      [] mood = "calm" -> << "chill", "ambient", "relax" >>
      [] mood = "tired" -> << "sleep", "relaxing", "slow" >>
      [] OTHER -> << "acoustic", "playlist" >>

MOOD_TO_TMDB_GENRES(mood) ==
    CASE mood = "happy" -> << "35", "10749" >>
      [] mood = "sad" -> << "18" >>
      [] mood = "anxious" -> << "53", "9648" >>
      [] mood = "angry" -> << "Action" >>
      [] mood = "calm" -> << "99" >>
      [] mood = "tired" -> << "10751" >>
      [] OTHER -> << >>

\* limit: int = 3 of both catalogue helpers
RecLimit == 3

Min(a, b) == IF a < b THEN a ELSE b

\* items[:limit] of an answer holding n items for query q
Items(kind, q, n, limit) == [i \in 1..Min(n, limit) |-> [kind |-> kind, q |-> q, n |-> i]]

HttpOutcomes == {"exception", "status", "ok"}

\* What the Spotify endpoints do: the token exchange (notoken: 200 without
\* access_token), the search, and how many tracks and playlists it finds.
\*   [token : HttpOutcomes \cup {"notoken"}, search : HttpOutcomes,
\*    tracks : 0..MaxItems, playlists : 0..MaxItems]

\* Lists come back with the number of requests sent.
RecRet(items, calls) == [items |-> items, calls |-> calls]

spotify_search_for_mood(mood_label, creds, o) ==
    IF ~creds THEN RecRet(<< >>, 0)
    ELSE IF o.token # "ok" THEN RecRet(<< >>, 1)
    ELSE IF o.search # "ok" THEN RecRet(<< >>, 2)
    ELSE LET q == MOOD_TO_SPOTIFY_KEYWORDS(mood_label)
             results == Items("track", q, o.tracks, RecLimit)
         IN  IF results = << >>
             THEN RecRet(Items("playlist", q, o.playlists, RecLimit), 2)
             ELSE RecRet(results, 2)

\* What the TMDB endpoints do: discover, then search, and how many titles
\* each finds.
\*   [discover : HttpOutcomes, search : HttpOutcomes,
\*    found : 0..MaxItems, searched : 0..MaxItems]

tmdb_suggestions_for_mood(mood_label, key, o) ==
    IF ~key THEN RecRet(<< >>, 0)
    ELSE IF o.discover = "exception" THEN RecRet(<< >>, 1)
    ELSE IF o.discover = "status"
         THEN IF o.search # "ok" THEN RecRet(<< >>, 2)
              ELSE RecRet(Items("search", << mood_label >>, o.searched, RecLimit), 2)
    ELSE RecRet(Items("discover", MOOD_TO_TMDB_GENRES(mood_label), o.found, RecLimit), 1)

-----------------------------------------------------------------------------
(* mood.py: persist_snapshot *)

\* Most snapshot submissions in one behaviour.
MaxSubmits == 2

Users == {"u1", "u2"}

\* A str field as a text of one token.
Str(x) == << x >>

\* text: Optional[str] = Form(None)
NoText == Str(NONE)

\* A falsy Optional[str]: None or "".
Falsy(x) == x = NONE \/ x = ""

\* str(uuid.uuid4()): the n-th value drawn differs from all drawn before.
Uuid(n) == "uuid-" \o ToString(n)

\* Plausible slip: the id derived from the payload instead of drawn fresh.
row_id_FromPayload(payload, n) == "uuid-" \o payload.user_id

\* Line 253.
row_id(payload, n) == Uuid(n)

\* An INSERT succeeds when the statement reaches a table that holds no row
\* with the same primary key.
DuplicateKey(table, id) == \E r \in table : r.id = id

InsertOk(table, id, reachable) == reachable /\ ~DuplicateKey(table, id)

MoodSnapshotRow(id, payload) ==
    [id |-> id, user_id |-> payload.user_id, content |-> payload.text,
     file_name |-> payload.file_name, detected_emotion |-> payload.detected_emotion,
     confidence |-> payload.confidence, created_at |-> payload.created_at]

\* payload.get("text") or (payload.get("file_name") or "snapshot")
FallbackContent(payload) ==
    IF payload.text # NoText /\ Truthy(payload.text) THEN payload.text
    ELSE IF ~Falsy(payload.file_name) THEN Str(payload.file_name)
    ELSE Str("snapshot")

ChatMessageRow(id, sid, payload) ==
    [id |-> id, user_id |-> payload.user_id, session_id |-> sid, role |-> "sys",
     content |-> FallbackContent(payload),
     detected_emotion |-> payload.detected_emotion, created_at |-> payload.created_at]

\* What a call of persist_snapshot leaves behind: the value returned (NONE
\* stands for None), the two tables, the number of uuids drawn, whether the
\* call raised, and whether an INSERT failed on a duplicate key.
Persisted(id, primary, secondary, drawn, raised, dup) ==
    [id |-> id, primary |-> primary, secondary |-> secondary, drawn |-> drawn,
     raised |-> raised, dup |-> dup]

\* Plausible slip: row_id returned after the fallback INSERT failed too.
persist_snapshot_IdOnFailure(payload, primary, secondary, n, okP, okS) ==
    LET id == row_id(payload, n + 1)
        sidDrawn == IF Falsy(payload.session_id) THEN 1 ELSE 0
        sid == IF Falsy(payload.session_id) THEN Uuid(n + 2) ELSE payload.session_id
    IN  IF InsertOk(primary, id, okP)
        THEN Persisted(id, primary \cup {MoodSnapshotRow(id, payload)}, secondary,
                       1, FALSE, FALSE)
        ELSE IF InsertOk(secondary, id, okS)
        THEN Persisted(id, primary, secondary \cup {ChatMessageRow(id, sid, payload)},
                       1 + sidDrawn, FALSE, okP /\ DuplicateKey(primary, id))
        ELSE Persisted(id, primary, secondary, 1 + sidDrawn, FALSE,
                       (okP /\ DuplicateKey(primary, id))
                           \/ (okS /\ DuplicateKey(secondary, id)))

\* Plausible slip: the failure of the fallback INSERT is not caught.
persist_snapshot_Raises(payload, primary, secondary, n, okP, okS) ==
    LET id == row_id(payload, n + 1)
        sidDrawn == IF Falsy(payload.session_id) THEN 1 ELSE 0
        sid == IF Falsy(payload.session_id) THEN Uuid(n + 2) ELSE payload.session_id
    IN  IF InsertOk(primary, id, okP)
        THEN Persisted(id, primary \cup {MoodSnapshotRow(id, payload)}, secondary,
                       1, FALSE, FALSE)
        ELSE IF InsertOk(secondary, id, okS)
        THEN Persisted(id, primary, secondary \cup {ChatMessageRow(id, sid, payload)},
                       1 + sidDrawn, FALSE, okP /\ DuplicateKey(primary, id))
        ELSE Persisted(NONE, primary, secondary, 1 + sidDrawn, TRUE,
                       (okP /\ DuplicateKey(primary, id))
                           \/ (okS /\ DuplicateKey(secondary, id)))

persist_snapshot(payload, primary, secondary, n, okP, okS) ==
    LET id == row_id(payload, n + 1)
        sidDrawn == IF Falsy(payload.session_id) THEN 1 ELSE 0
        sid == IF Falsy(payload.session_id) THEN Uuid(n + 2) ELSE payload.session_id
    IN  IF InsertOk(primary, id, okP)
        THEN Persisted(id, primary \cup {MoodSnapshotRow(id, payload)}, secondary,
                       1, FALSE, FALSE)
        ELSE IF InsertOk(secondary, id, okS)
        THEN Persisted(id, primary, secondary \cup {ChatMessageRow(id, sid, payload)},
                       1 + sidDrawn, FALSE, okP /\ DuplicateKey(primary, id))
        ELSE Persisted(NONE, primary, secondary, 1 + sidDrawn, FALSE,
                       (okP /\ DuplicateKey(primary, id))
                           \/ (okS /\ DuplicateKey(secondary, id)))

-----------------------------------------------------------------------------
(* mood.py: POST /api/mood *)

\* user.get("id") of the authenticated caller; NONE: the identity holds no id.
UserIds == Users \cup {NONE}

\* What one request did besides answering: requests sent to the inference
\* endpoint and to the catalogues, INSERTs attempted and INSERTs that failed.
NoEffects == [inference |-> 0, catalogue |-> 0, inserts |-> 0, failed |-> 0]

\* The form fields and the caller of one request.
Request(user_id, text, file) == [user_id |-> user_id, text |-> text, file |-> file]

\* status 0: no request was answered yet. req is the request answered.
NoResponse ==
    [status |-> 0, detected_emotion |-> NONE, confidence |-> NONE,
     spotify |-> << >>, tmdb |-> << >>, saved |-> FALSE, snapshot_id |-> NONE,
     effects |-> NoEffects, req |-> Request(NONE, NoText, NONE)]

\* raise HTTPException(status_code=...)
Rejected(status, req) == [NoResponse EXCEPT !.status = status, !.req = req]

\* not (text and text.strip()) and not file
NothingSupplied(text, file) ==
    /\ ~(text # NoText /\ Truthy(text) /\ Truthy(Strip(text)))
    /\ file = NONE

\* text or ""
OrEmpty(text) == IF text = NoText THEN << >> ELSE text

create_mood_snapshot(user_id, text, file, session_id, reply, so, to, okP, okS) ==
    IF Falsy(user_id) THEN
        /\ response' = Rejected(401, Request(user_id, text, file))
        /\ UNCHANGED << mood_snapshot, chatmessage, channel, nextId, clock, log >>
    ELSE IF NothingSupplied(text, file) THEN
        /\ response' = Rejected(400, Request(user_id, text, file))
        /\ UNCHANGED << mood_snapshot, chatmessage, channel, nextId, clock, log >>
    ELSE
        LET file_name == file
            cls == detect_emotion_text(OrEmpty(text), cfg.openai, reply)
            wanted == ~Falsy(cls.emotion)
            sp == IF wanted /\ cfg.spotify
                  THEN spotify_search_for_mood(cls.emotion, TRUE, so)
                  ELSE RecRet(<< >>, 0)
            tm == IF wanted /\ cfg.tmdb
                  THEN tmdb_suggestions_for_mood(cls.emotion, TRUE, to)
                  ELSE RecRet(<< >>, 0)
            payload == [user_id |-> user_id, text |-> text, file_name |-> file_name,
                        detected_emotion |-> cls.emotion, confidence |-> cls.confidence,
                        created_at |-> clock + 1, session_id |-> session_id]
            p == persist_snapshot(payload, mood_snapshot, chatmessage, nextId, okP, okS)
            eff == [inference |-> IF cls.called THEN 1 ELSE 0,
                    catalogue |-> sp.calls + tm.calls,
                    inserts |-> IF p.primary # mood_snapshot THEN 1 ELSE 2,
                    failed |-> IF p.primary # mood_snapshot THEN 0
                               ELSE IF p.secondary # chatmessage THEN 1 ELSE 2]
        IN  /\ clock' = clock + 1
            /\ mood_snapshot' = p.primary
            /\ chatmessage' = p.secondary
            /\ nextId' = nextId + p.drawn
            /\ UNCHANGED channel
            /\ IF p.raised
               THEN /\ response' = [Rejected(500, Request(user_id, text, file)) EXCEPT !.effects = eff]
                    /\ UNCHANGED log
               ELSE /\ response' =
                        [status |-> 200,
                         detected_emotion |-> IF Falsy(cls.emotion) THEN "neutral"
                                              ELSE cls.emotion,
                         confidence |-> cls.confidence,
                         spotify |-> sp.items, tmdb |-> tm.items,
                         saved |-> p.id # NONE, snapshot_id |-> p.id,
                         effects |-> eff, req |-> Request(user_id, text, file)]
                    /\ log' = Append(log, [user_id |-> user_id, file |-> file,
                                           saved |-> p.id # NONE, snapshot_id |-> p.id,
                                           dup |-> p.dup])

-----------------------------------------------------------------------------
(* mood.py: GET /api/mood/history *)

\* Largest limit a history request asks for.
MaxLimit == 2

\* limit: int = 50 of a history request; a negative one is refused by the
\* database (LIMIT must not be negative).
Limits == -1..MaxLimit

RECURSIVE NewestFirst(_)
\* ORDER BY created_at DESC
NewestFirst(rows) ==
    IF rows = {} THEN << >>
    ELSE LET newest == CHOOSE r \in rows : \A q \in rows : q.created_at <= r.created_at
         IN  << newest >> \o NewestFirst(rows \ {newest})

\* LIMIT :limit
Take(s, n) == SubSeq(s, 1, Min(n, Len(s)))

\* SELECT id, content, detected_emotion, created_at
Columns(r) == [id |-> r.id, content |-> r.content,
               detected_emotion |-> r.detected_emotion, created_at |-> r.created_at]

\* Plausible slip: the WHERE user_id = :uid clause left out.
SelectHistory_AllUsers(table, uid, limit) ==
    LET s == Take(NewestFirst(table), limit)
    IN  [i \in 1..Len(s) |-> Columns(s[i])]

\* SELECT ... FROM <table> WHERE user_id = :uid ORDER BY created_at DESC
\* LIMIT :limit
SelectHistory(table, uid, limit) ==
    LET s == Take(NewestFirst({r \in table : r.user_id = uid}), limit)
    IN  [i \in 1..Len(s) |-> Columns(s[i])]

\* A SELECT raises when the table cannot be read or the limit is negative.
SelectOk(limit, reachable) == reachable /\ limit >= 0

\* "detected_emotion": r.get("detected_emotion") or "neutral"
Normalize(r) == [r EXCEPT !.detected_emotion = IF Falsy(@) THEN "neutral" ELSE @]

NoHistory == [status |-> 0, user_id |-> NONE, limit |-> 0, path |-> NONE,
              rows |-> << >>, expect |-> NONE]

\* The user's latest accepted submission, if it was saved: its snapshot id.
LatestSaved(uid) ==
    LET mine == SelectSeq(log, LAMBDA e : e.user_id = uid)
    IN  IF mine # << >> /\ mine[Len(mine)].saved
        THEN mine[Len(mine)].snapshot_id
        ELSE NONE

mood_history(user_id, limit, okP, okS) ==
    /\ UNCHANGED << mood_snapshot, chatmessage, channel, nextId, clock, log, response >>
    /\ IF Falsy(user_id) THEN
           history' = [NoHistory EXCEPT !.status = 401]
       ELSE
           LET path == IF SelectOk(limit, okP) THEN "mood_snapshot"
                       ELSE IF SelectOk(limit, okS) THEN "chatmessage"
                       ELSE NONE
               rows == IF path = "mood_snapshot"
                       THEN SelectHistory(mood_snapshot, user_id, limit)
                       ELSE IF path = "chatmessage"
                       THEN SelectHistory(chatmessage, user_id, limit)
                       ELSE << >>
           IN  history' =
                   [status |-> IF path = NONE THEN 500 ELSE 200,
                    user_id |-> user_id, limit |-> limit, path |-> path,
                    rows |-> [i \in 1..Len(rows) |-> Normalize(rows[i])],
                    expect |-> LatestSaved(user_id)]

-----------------------------------------------------------------------------
(* dependencies.py: get_current_user_dependency *)

\* The Authorization header as a text; NoText: the request carries none.
Headers ==
    { NoText, << >>, << "Bearer" >>, << "Token", SPACE, "tok" >>,
      << "bearer", SPACE, "tok" >>, << "Bearer", SPACE >>,
      << "Bearer", SPACE, "tok" >> }

\* What GET {SUPABASE_URL}/auth/v1/user does with the token:
\*   exception  the client raises (network error, timeout)
\*   status     a status other than 200: the token is rejected
\*   badbody    200, the body is not JSON
\*   nonobject  200, the body is JSON but not an object
\*   noid       200, an object without "id"
\*   user       200, the user's object
ProviderOutcomes == {"exception", "status", "badbody", "nonobject", "noid", "user"}

\* authorization.startswith("Bearer ")
StartsWithBearer(h) == Len(h) >= 2 /\ h[1] = "Bearer" /\ h[2] = SPACE

NoUser == [id |-> NONE, email |-> NONE]

\* Outcome of the dependency: raised is the status of the HTTPException it
\* raised (0: it returned user), calls the requests sent to the provider.
AuthRet(raised, detail, user, calls) ==
    [raised |-> raised, detail |-> detail, user |-> user, calls |-> calls]

\* Lines 25-31, the body of the try block: exc names what it raised.
ValidateBody(provider) ==
    CASE provider = "exception" -> [exc |-> "Exception", user |-> NoUser]
      [] provider = "status" -> [exc |-> "HTTPException(401)", user |-> NoUser]
      [] provider \in {"badbody", "nonobject"} -> [exc |-> "Exception", user |-> NoUser]
      [] provider = "noid" -> [exc |-> NONE, user |-> NoUser]
      [] OTHER -> [exc |-> NONE, user |-> [id |-> "u1", email |-> "u1@pulse.local"]]

\* `except Exception` catches the HTTPException raised in the try block too.
get_current_user_dependency(configured, authorization, provider) ==
    IF ~configured THEN AuthRet(0, NONE, [id |-> "dev-user", email |-> "dev@pulse.local"], 0)
    ELSE IF authorization = NoText \/ ~Truthy(authorization)
            \/ ~StartsWithBearer(authorization)
    THEN AuthRet(401, "Missing or invalid Authorization header", NoUser, 0)
    ELSE LET b == ValidateBody(provider) IN
         IF b.exc # NONE THEN AuthRet(500, "Auth validation error", NoUser, 1)
         ELSE AuthRet(0, NONE, b.user, 1)

\* A request to a protected endpoint.  status 0: not answered yet; entered:
\* the handler's body ran.
NoAuth ==
    [configured |-> FALSE, authorization |-> NoText, provider |-> "user",
     endpoint |-> NONE, status |-> 0, detail |-> NONE, entered |-> FALSE, calls |-> 0]

-----------------------------------------------------------------------------
(* utils/recommendations.py: the catalogue helpers behind asyncio.gather *)

\* Outcome of one catalogue coroutine: raised (an exception left it), the
\* items returned, the requests sent.
RecOut(raised, items, calls) == [raised |-> raised, items |-> items, calls |-> calls]

\* EMOTION_TO_SPOTIFY.get(emotion, ["pop"])
EMOTION_TO_SPOTIFY(emotion) ==
    CASE emotion = "happy" -> << "pop", "dance" >>
      [] emotion = "calm" -> << "ambient", "chill" >>
      [] emotion = "sad" -> << "acoustic", "singer-songwriter" >>
      [] emotion = "anxious" -> << "ambient", "meditation" >>
      [] emotion = "angry" -> << "rock", "metal" >>
      [] emotion = "neutral" -> << "indie", "alternative" >>
      [] OTHER -> << "pop" >>

\* data.get("results", [])[:10]
PopularLimit == 10

\* _spotify_app_token: "" stands for no token. No except clause: an
\* exception of the client leaves the coroutine.
spotify_app_token(creds, o) ==
    IF ~creds THEN [raised |-> FALSE, token |-> "", calls |-> 0]
    ELSE CASE o.token = "exception" -> [raised |-> TRUE, token |-> "", calls |-> 1]
           [] o.token = "ok" -> [raised |-> FALSE, token |-> "tok", calls |-> 1]
           [] OTHER -> [raised |-> FALSE, token |-> "", calls |-> 1]

\* _spotify_recommendations
spotify_recommendations(emotion, creds, o) ==
    LET t == spotify_app_token(creds, o) IN
    IF t.raised THEN RecOut(TRUE, << >>, t.calls)
    ELSE IF t.token = "" THEN RecOut(FALSE, << >>, t.calls)
    ELSE CASE o.search = "exception" -> RecOut(TRUE, << >>, t.calls + 1)
           [] o.search = "status" -> RecOut(FALSE, << >>, t.calls + 1)
           [] OTHER -> RecOut(FALSE,
                              Items("track", EMOTION_TO_SPOTIFY(emotion), o.tracks, o.tracks),
                              t.calls + 1)

\* Plausible slip: the request sent without looking at TMDB_API_KEY.
tmdb_recommendations_NoKeyCheck(emotion, key, o) ==
    CASE o.discover = "exception" -> RecOut(TRUE, << >>, 1)
      [] o.discover = "status" -> RecOut(FALSE, << >>, 1)
      [] OTHER -> RecOut(FALSE, Items("popular", << >>, o.found, PopularLimit), 1)

\* _tmdb_recommendations: one request, to movie/popular, whose outcome and
\* number of results are o.discover and o.found; emotion is not used.
tmdb_recommendations(emotion, key, o) ==
    IF ~key THEN RecOut(FALSE, << >>, 0)
    ELSE CASE o.discover = "exception" -> RecOut(TRUE, << >>, 1)
           [] o.discover = "status" -> RecOut(FALSE, << >>, 1)
           [] OTHER -> RecOut(FALSE, Items("popular", << >>, o.found, PopularLimit), 1)

\* A request to the title catalogue: the endpoint and what selects titles.
TitleRequest(url, q) == [url |-> url, q |-> q]

\* The requests _tmdb_recommendations sends, in order.
tmdb_recommendations_requests(emotion, key, o) ==
    IF ~key THEN << >> ELSE << TitleRequest("movie/popular", << >>) >>

\* The requests tmdb_suggestions_for_mood (mood.py) sends, in order.
tmdb_suggestions_requests(mood_label, key, o) ==
    IF ~key THEN << >>
    ELSE IF o.discover = "status"
    THEN << TitleRequest("discover/movie", MOOD_TO_TMDB_GENRES(mood_label)),
            TitleRequest("search/movie", << mood_label >>) >>
    ELSE << TitleRequest("discover/movie", MOOD_TO_TMDB_GENRES(mood_label)) >>

-----------------------------------------------------------------------------
(* The two fan-outs, step by step *)

\* impl "mood":  create_mood_snapshot, lines 336-367: the coroutines are
\*               created, then awaited one after the other;
\* impl "utils": get_recommendations_for_emotion: asyncio.gather of the two.

\* What the first coroutine does when it runs: mood.py's helper never
\* raises, the one of recommendations.py may.
RunSpotify(f) ==
    IF f.impl = "mood"
    THEN LET r == spotify_search_for_mood(f.emotion, f.creds.spotify, f.so)
         IN  RecOut(FALSE, r.items, r.calls)
    ELSE spotify_recommendations(f.emotion, f.creds.spotify, f.so)

RunTmdb(f) ==
    IF f.impl = "mood"
    THEN LET r == tmdb_suggestions_for_mood(f.emotion, f.creds.tmdb, f.to)
         IN  RecOut(FALSE, r.items, r.calls)
    ELSE tmdb_recommendations(f.emotion, f.creds.tmdb, f.to)

TmdbRequests(f) ==
    IF f.impl = "mood"
    THEN tmdb_suggestions_requests(f.emotion, f.creds.tmdb, f.to)
    ELSE tmdb_recommendations_requests(f.emotion, f.creds.tmdb, f.to)

\* Lines 340-353 of mood.py: a coroutine is created only with an emotion and
\* the catalogue's credentials; gather always gets its two coroutines.
HasTask(impl, emotion, cred) == impl = "utils" \/ (~Falsy(emotion) /\ cred)

\* A fan-out.  pc: idle (none), running, returned, raised (an exception
\* reached the caller).  sp, tm: none (no coroutine), pending, running, done,
\* raised.  events: starts and ends of the coroutines in the order they
\* happen.  result: what the caller holds.
EmptyRecs == [spotify |-> << >>, tmdb |-> << >>]

FanIdle ==
    [impl |-> "mood", emotion |-> NONE, creds |-> [spotify |-> FALSE, tmdb |-> FALSE],
     so |-> [token |-> "ok", search |-> "ok", tracks |-> 0, playlists |-> 0],
     to |-> [discover |-> "ok", search |-> "ok", found |-> 0, searched |-> 0],
     pc |-> "idle", sp |-> "none", tm |-> "none", events |-> << >>,
     spotify |-> << >>, tmdb |-> << >>, calls |-> 0, requests |-> << >>,
     result |-> EmptyRecs]

FanCreated(impl, emotion, creds, so, to) ==
    [FanIdle EXCEPT !.impl = impl, !.emotion = emotion, !.creds = creds,
                    !.so = so, !.to = to, !.pc = "running",
                    !.sp = IF HasTask(impl, emotion, creds.spotify) THEN "pending" ELSE "none",
                    !.tm = IF HasTask(impl, emotion, creds.tmdb) THEN "pending" ELSE "none"]

\* A coroutine that sends no request never suspends: it ends in the step
\* that starts it.
Suspends(r) == r.calls > 0

\* The caller of gather is resumed with the first exception of either task.
AfterEnd(pc, r) == IF r.raised /\ pc = "running" THEN "raised" ELSE pc

StartedSpotify(f) ==
    LET r == RunSpotify(f) IN
    IF Suspends(r)
    THEN [f EXCEPT !.sp = "running", !.events = Append(@, "spotify:start")]
    ELSE [f EXCEPT !.sp = IF r.raised THEN "raised" ELSE "done",
                   !.events = @ \o << "spotify:start", "spotify:end" >>,
                   !.spotify = r.items, !.pc = AfterEnd(@, r)]

FinishedSpotify(f) ==
    LET r == RunSpotify(f) IN
    [f EXCEPT !.sp = IF r.raised THEN "raised" ELSE "done",
              !.events = Append(@, "spotify:end"),
              !.spotify = r.items, !.calls = @ + r.calls, !.pc = AfterEnd(@, r)]

StartedTmdb(f) ==
    LET r == RunTmdb(f) IN
    IF Suspends(r)
    THEN [f EXCEPT !.tm = "running", !.events = Append(@, "tmdb:start")]
    ELSE [f EXCEPT !.tm = IF r.raised THEN "raised" ELSE "done",
                   !.events = @ \o << "tmdb:start", "tmdb:end" >>,
                   !.tmdb = r.items, !.pc = AfterEnd(@, r)]

FinishedTmdb(f) ==
    LET r == RunTmdb(f) IN
    [f EXCEPT !.tm = IF r.raised THEN "raised" ELSE "done",
              !.events = Append(@, "tmdb:end"),
              !.tmdb = r.items, !.calls = @ + r.calls, !.requests = TmdbRequests(f),
              !.pc = AfterEnd(@, r)]

-----------------------------------------------------------------------------
(* chat.py: POST /api/chat *)

\* LIMIT 6 of the context query.
ContextLimit == 6

SystemMessage == [role |-> "system", content |-> Str("You are Pulse")]

\* What the reply provider does with the prompt:
\*   exception  the client raises (network error, timeout)
\*   status     a status other than 200
\*   badbody    200 whose body holds no choices[0].message.content string
\*   ok         200 with a reply
LlmOutcomes == {"exception", "status", "badbody", "ok"}

\* A row of chatmessage written by the chat handler.
ChatRow(id, uid, sid, role, content, emotion, ts) ==
    [id |-> id, user_id |-> uid, session_id |-> sid, role |-> role,
     content |-> content, detected_emotion |-> emotion, created_at |-> ts]

\* SELECT role, content FROM chatmessage WHERE user_id = :uid AND
\* session_id = :sid ORDER BY created_at DESC LIMIT 6, then reversed(history).
Reversed(q) == [i \in 1..Len(q) |-> q[Len(q) + 1 - i]]

\* Plausible slip: the session left out of the WHERE clause.
SelectContext_AnySession(table, uid, sid) ==
    Reversed(Take(NewestFirst({r \in table : r.user_id = uid}), ContextLimit))

SelectContext(table, uid, sid) ==
    Reversed(Take(NewestFirst({r \in table : r.user_id = uid /\ r.session_id = sid}),
                  ContextLimit))

\* Plausible slip: a canned reply substituted when the provider fails.
generate_reply_Degraded(llm) ==
    IF llm = "ok" THEN [raised |-> FALSE, text |-> Str("reply")]
    ELSE [raised |-> FALSE, text |-> Str("sorry")]

\* Lines 187-210: the 502 raised on a non-200 status is caught by the same
\* except clause as any other exception and becomes a 500.
generate_reply(llm) ==
    IF llm = "ok" THEN [raised |-> FALSE, text |-> Str("reply")]
    ELSE [raised |-> TRUE, text |-> NoText]

\* A chat request and its answer.  status 0: none yet.  context holds the
\* rows behind the prompt's messages, read_ok whether the context query
\* succeeded, before the ids stored when the request arrived, user_msg the
\* request's content stripped.
NoChat ==
    [status |-> 0, user_id |-> NONE, session_id |-> NONE, user_msg |-> NoText,
     llm |-> "ok", prompt |-> << >>, context |-> << >>, read_ok |-> FALSE,
     assistant_message |-> NoText, detected_emotion |-> NONE,
     stored_user |-> NONE, stored_bot |-> NONE, before |-> {}]

\* The handler as a function of the request, the table, the ids drawn and the
\* clock so far, and of what its collaborators do: the emotion endpoint
\* (emo), the INSERT of the user message (okU), the context query (okH), the
\* reply provider (llm), the INSERT of the reply (okB).
chat_with_ai(key, user_id, content, session_id, table, n, clk, emo, okU, okH, llm, okB) ==
    LET unchanged(status) ==
            [table |-> table, drawn |-> 0, ticks |-> 0,
             out |-> [NoChat EXCEPT !.status = status, !.user_id = user_id,
                                    !.llm = llm, !.before = {r.id : r \in table}]]
        user_msg == Strip(content)
    IN  IF ~key THEN unchanged(500)
        ELSE IF Falsy(user_id) THEN unchanged(401)
        ELSE IF ~Truthy(user_msg) THEN unchanged(400)
        ELSE
        LET sidDrawn == IF Falsy(session_id) THEN 1 ELSE 0
            sid == IF Falsy(session_id) THEN Uuid(n + 1) ELSE session_id
            created_at == clk + 1
            detected_emotion == detect_emotion_from_text(user_msg, key, emo).emotion
            uid_msg == Uuid(n + sidDrawn + 1)
            t1 == IF InsertOk(table, uid_msg, okU)
                  THEN table \cup {ChatRow(uid_msg, user_id, sid, "user", user_msg,
                                           detected_emotion, created_at)}
                  ELSE table
            context == IF okH THEN SelectContext(t1, user_id, sid) ELSE << >>
            messages == << SystemMessage >>
                        \o [i \in 1..Len(context) |->
                               [role |-> context[i].role, content |-> context[i].content]]
            reply == generate_reply(llm)
            bot_id == Uuid(n + sidDrawn + 2)
            t2 == IF ~reply.raised /\ InsertOk(t1, bot_id, okB)
                  THEN t1 \cup {ChatRow(bot_id, user_id, sid, "bot", reply.text,
                                        NONE, clk + 2)}
                  ELSE t1
            out == [NoChat EXCEPT
                       !.status = IF reply.raised THEN 500 ELSE 200,
                       !.user_id = user_id, !.session_id = sid,
                       !.user_msg = user_msg, !.llm = llm,
                       !.prompt = messages, !.context = context, !.read_ok = okH,
                       !.assistant_message = reply.text,
                       !.detected_emotion = IF reply.raised THEN NONE
                                            ELSE IF Falsy(detected_emotion) THEN "neutral"
                                            ELSE detected_emotion,
                       !.stored_user = IF t1 # table THEN uid_msg ELSE NONE,
                       !.stored_bot = IF t2 # t1 THEN bot_id ELSE NONE,
                       !.before = {r.id : r \in table}]
        IN  [table |-> t2,
             drawn |-> sidDrawn + (IF reply.raised THEN 1 ELSE 2),
             ticks |-> IF reply.raised THEN 1 ELSE 2,
             out |-> out]

-----------------------------------------------------------------------------
(* worker/app/tasks.py: transcribe_audio_task, and the backend's routes *)

\* The routes the backend serves (mood.py, chat.py, users.py, main.py); a
\* path is the sequence of its segments.
Routes ==
    { [method |-> "POST", path |-> << "api", "mood" >>],
      [method |-> "POST", path |-> << "api", "mood", "snapshot" >>],
      [method |-> "GET", path |-> << "api", "mood", "history" >>],
      [method |-> "POST", path |-> << "api", "chat" >>],
      [method |-> "POST", path |-> << "api", "users", "sync" >>],
      [method |-> "GET", path |-> << >>] }

\* The status the backend answers a request no handler is entered for:
\* 404 without a route of that path, 405 with one of another method;
\* 0: a route matches.
Unrouted(method, path) ==
    IF \E r \in Routes : r.method = method /\ r.path = path THEN 0
    ELSE IF \E r \in Routes : r.path = path THEN 405
    ELSE 404

\* What the transcription endpoint does with the audio:
\*   nokey      OPENAI_API_KEY is not set, no request is sent
\*   ok         200 with a text
\*   notext     200 without "text"
\*   status     a status other than 200
\*   exception  the client raises
WhisperOutcomes == {"nokey", "ok", "notext", "status", "exception"}

\* Lines 31-50: the text and the engine the task reports.
Transcribed(whisper) ==
    CASE whisper = "nokey" -> [text |-> "_TRANSCRIPTION_NOT_AVAILABLE_", engine |-> "none"]
      [] whisper = "ok" -> [text |-> "world", engine |-> "openai_whisper"]
      [] whisper = "notext" -> [text |-> "_EMPTY_", engine |-> "openai_whisper"]
      [] whisper = "status" -> [text |-> "_OPENAI_ERR_500", engine |-> "openai_whisper"]
      [] OTHER -> [text |-> "_OPENAI_EXC_", engine |-> "openai_whisper"]

\* A run of the task.  status: none, ok (the task returned), failed (an
\* exception left the task).  download: download_file returned.  whisper:
\* what the transcription endpoint did.  posts: the callbacks posted.  http:
\* the backend's answer to the callback, 0 when none was posted or none came
\* back.  raw_before, known: the text of the snapshot the run names, and
\* whether there is one.
NoCallback ==
    [status |-> "none", snapshot_id |-> NONE, download |-> FALSE, whisper |-> "nokey",
     transcribed_text |-> NONE, engine |-> NONE, posts |-> 0, http |-> 0,
     raw_before |-> NoText, known |-> FALSE]

\* Plausible slip: no try/except around httpx.post.
post_callback_Raises(snapshot_id, reachable) ==
    IF reachable
    THEN [raised |-> FALSE, posts |-> 1,
          http |-> Unrouted("POST", << "api", "mood", snapshot_id, "transcription" >>)]
    ELSE [raised |-> TRUE, posts |-> 1, http |-> 0]

\* _post_callback, to urljoin(BACKEND_URL, f"/api/mood/{snapshot_id}/transcription"):
\* one post; the answer is not looked at, an exception (reachable FALSE:
\* connection error, timeout) is printed.
post_callback(snapshot_id, reachable) ==
    IF reachable
    THEN [raised |-> FALSE, posts |-> 1,
          http |-> Unrouted("POST", << "api", "mood", snapshot_id, "transcription" >>)]
    ELSE [raised |-> FALSE, posts |-> 1, http |-> 0]

\* Plausible slip: no try/except around the request to the transcription
\* endpoint.
transcribe_audio_task_NoExcept(snapshot_id, s3ok, whisper, reachable) ==
    LET t == Transcribed(whisper)
        p == post_callback(snapshot_id, reachable)
    IN  IF ~s3ok \/ whisper = "exception"
        THEN [NoCallback EXCEPT !.status = "failed", !.snapshot_id = snapshot_id,
                                !.download = s3ok, !.whisper = whisper]
        ELSE [NoCallback EXCEPT !.status = IF p.raised THEN "failed" ELSE "ok",
                                !.snapshot_id = snapshot_id, !.download = TRUE,
                                !.whisper = whisper, !.transcribed_text = t.text,
                                !.engine = t.engine, !.posts = p.posts, !.http = p.http]

\* transcribe_audio_task(snapshot_id, audio_s3_key): one execution.  An
\* exception of download_file (line 29) leaves the task before anything else.
transcribe_audio_task(snapshot_id, s3ok, whisper, reachable) ==
    LET t == Transcribed(whisper)
        p == post_callback(snapshot_id, reachable)
    IN  IF ~s3ok
        THEN [NoCallback EXCEPT !.status = "failed", !.snapshot_id = snapshot_id]
        ELSE [NoCallback EXCEPT !.status = IF p.raised THEN "failed" ELSE "ok",
                                !.snapshot_id = snapshot_id, !.download = TRUE,
                                !.whisper = whisper, !.transcribed_text = t.text,
                                !.engine = t.engine, !.posts = p.posts, !.http = p.http]

-----------------------------------------------------------------------------
(* worker/app/tasks.py: _listen_pubsub, the job channel and the task queue *)

\* Most worker processes (each starts one listener thread) and most messages
\* published on pulse:transcribe_jobs.
MaxListeners == 2
MaxPublished == 2

Listeners == 1..MaxListeners

\* msg["data"] of a message:
\*   job        a JSON object with snapshot_id and audio_s3_key
\*   notjson    json.loads raises
\*   nonobject  JSON, but not an object: data["snapshot_id"] raises
\*   nokey      an object without snapshot_id or audio_s3_key
MessageKinds == {"job", "notjson", "nonobject", "nokey"}

\* Plausible slip: no try/except in the loop, the thread ends with the
\* exception.
listen_step_NoExcept(kind) == [enqueued |-> kind = "job", alive |-> kind = "job"]

\* Lines 70-75, one turn of the loop for a message of type "message":
\* whether transcribe_audio_task.delay was called, and whether the loop goes on.
listen_step(kind) == [enqueued |-> kind = "job", alive |-> TRUE]

\* Plausible slip: a queue with competing consumers in place of pub/sub.
Receivers_OneConsumer(subscribed) ==
    IF subscribed = {} THEN {}
    ELSE {CHOOSE l \in subscribed : \A m \in subscribed : l <= m}

\* ps.subscribe / ps.listen on a Redis pub/sub channel: a message goes to
\* every listener subscribed when it is published, and to no other.
Receivers(subscribed) == subscribed

\* A published message: k listeners were subscribed, handled turns of a
\* listener's loop took it, enqueued tasks were queued for it, ran of them
\* were executed, posts callbacks were posted for its snapshot.
Published(kind, k) ==
    [kind |-> kind, k |-> k, handled |-> 0, enqueued |-> 0, ran |-> 0, posts |-> 0]

\* subscribed: the listeners inside ps.listen(); stopped: the threads that
\* ended; inbox: the messages delivered to a listener and not yet taken by
\* its loop, as indices into msgs.
NoWorker ==
    [subscribed |-> {}, stopped |-> {}, inbox |-> [l \in Listeners |-> << >>],
     msgs |-> << >>]

-----------------------------------------------------------------------------
(* Spec: the snapshot store under the two handlers *)

StoreInit ==
    /\ mood_snapshot = {}
    /\ chatmessage = {}
    /\ channel = << >>
    /\ nextId = 0
    /\ clock = 0
    /\ response = NoResponse
    /\ history = NoHistory
    /\ log = << >>

\* No request to the other parts of the service is under way.
ExtraInit ==
    /\ auth = NoAuth
    /\ fan = FanIdle
    /\ chat = NoChat
    /\ cb = NoCallback
    /\ wk = NoWorker

ClassifyIdle ==
    /\ cText = << >>
    /\ cReply = [kind |-> "exception", content |-> NoContent]
    /\ cOut = NoCall

\* One POST /api/mood whose inputs and whose collaborators' outcomes are drawn
\* from the given sets.
Submit(texts, files, sessions, replies, sos, tos) ==
    /\ \E user_id \in UserIds, text \in texts, file \in files,
          session_id \in sessions, reply \in replies,
          so \in sos, to \in tos, okP \in BOOLEAN, okS \in BOOLEAN :
          create_mood_snapshot(user_id, text, file, session_id, reply, so, to, okP, okS)
    /\ history' = NoHistory
    /\ UNCHANGED classifyVars
    /\ UNCHANGED extraVars

\* The submissions that drive the store: with a text or with nothing, one
\* endpoint answer, one answer of each catalogue (SpecSubmit covers the
\* other inputs of a submission).
StoreTexts == {NoText, << "anxious" >>}
StoreFiles == {NONE}
StoreReplies ==
    { [kind |-> "content",
       content |-> [form |-> "object", emotion |-> "sad", confidence |-> "0.9",
                    words |-> << >>]] }
StoreSpotify == { [token |-> "ok", search |-> "ok", tracks |-> 1, playlists |-> 0] }
StoreTmdb == { [discover |-> "ok", search |-> "ok", found |-> 1, searched |-> 0] }

CreateMoodSnapshot ==
    /\ Len(log) < MaxSubmits
    /\ Submit(StoreTexts, StoreFiles, {NONE}, StoreReplies, StoreSpotify, StoreTmdb)

\* One GET /api/mood/history. history holds the answer to the request made
\* since the last submission; a second request would read the same store.
MoodHistory ==
    /\ history = NoHistory
    /\ \E user_id \in UserIds, limit \in Limits, okP \in BOOLEAN, okS \in BOOLEAN :
          mood_history(user_id, limit, okP, okS)
    /\ UNCHANGED classifyVars
    /\ UNCHANGED extraVars

Init ==
    /\ cText = << >>
    /\ cfg = [openai |-> TRUE, spotify |-> TRUE, tmdb |-> TRUE]
    /\ cReply = [kind |-> "exception", content |-> NoContent]
    /\ cOut = NoCall
    /\ StoreInit
    /\ ExtraInit

Next ==
    \/ CreateMoodSnapshot
    \/ MoodHistory

Spec == Init /\ [][Next]_vars

-----------------------------------------------------------------------------
(* SpecSubmit: one snapshot submission, over every input and outcome *)

\* text of a submission: absent, whitespace only, or a sentence.
SubmitTexts == {NoText, << SPACE >>, << "anxious" >>}

\* file of a submission: NONE (no file part), or the part's filename, which
\* is empty when the part names no file.
SubmitFiles == {NONE, "", "a.wav"}

SubmitSessions == {NONE, "s1"}

\* Endpoint outcomes a submission meets.
SubmitReplies ==
    { [kind |-> "exception", content |-> NoContent],
      [kind |-> "status", content |-> NoContent],
      [kind |-> "nochoices", content |-> NoContent],
      [kind |-> "content",
       content |-> [form |-> "object", emotion |-> "sad", confidence |-> "0.9",
                    words |-> << >>]],
      [kind |-> "content",
       content |-> [form |-> "object", emotion |-> NONE, confidence |-> "0.9",
                    words |-> << >>]],
      [kind |-> "content",
       content |-> [form |-> "object", emotion |-> "excited", confidence |-> "\"high\"",
                    words |-> << >>]],
      [kind |-> "content",
       content |-> [form |-> "text", emotion |-> NONE, confidence |-> NONE,
                    words |-> << "SAD" >>]],
      [kind |-> "content",
       content |-> [form |-> "text", emotion |-> NONE, confidence |-> NONE,
                    words |-> << "fine" >>]] }

\* Catalogue outcomes a submission meets.
SubmitSpotify ==
    { [token |-> "status", search |-> "ok", tracks |-> 0, playlists |-> 0],
      [token |-> "ok", search |-> "exception", tracks |-> 0, playlists |-> 0],
      [token |-> "ok", search |-> "ok", tracks |-> 1, playlists |-> 0],
      [token |-> "ok", search |-> "ok", tracks |-> 0, playlists |-> 1] }

SubmitTmdb ==
    { [discover |-> "exception", search |-> "ok", found |-> 0, searched |-> 0],
      [discover |-> "status", search |-> "status", found |-> 0, searched |-> 0],
      [discover |-> "status", search |-> "ok", found |-> 0, searched |-> 1],
      [discover |-> "ok", search |-> "ok", found |-> 1, searched |-> 0] }

InitSubmit ==
    /\ cText = << >>
    /\ cfg \in [openai : BOOLEAN, spotify : BOOLEAN, tmdb : BOOLEAN]
    /\ cReply = [kind |-> "exception", content |-> NoContent]
    /\ cOut = NoCall
    /\ StoreInit
    /\ ExtraInit

SubmitOnce ==
    /\ response.status = 0
    /\ Submit(SubmitTexts, SubmitFiles, SubmitSessions, SubmitReplies,
              SubmitSpotify, SubmitTmdb)

SpecSubmit == InitSubmit /\ [][SubmitOnce]_vars

-----------------------------------------------------------------------------
(* SpecClassify: the classification functions applied to drawn inputs *)

InitClassify ==
    /\ cText \in Texts
    /\ cfg \in [openai : BOOLEAN, spotify : {TRUE}, tmdb : {TRUE}]
    /\ cReply \in Replies
    /\ cOut = NoCall
    /\ StoreInit
    /\ ExtraInit

CallDetectEmotionText ==
    /\ cOut' = Tag("detect_emotion_text", detect_emotion_text(cText, cfg.openai, cReply))
    /\ UNCHANGED << cText, cfg, cReply >>
    /\ UNCHANGED storeVars
    /\ UNCHANGED extraVars

CallDetectEmotionFromText ==
    /\ Truthy(Strip(cText))
    /\ cOut' = Tag("detect_emotion_from_text",
                   detect_emotion_from_text(Strip(cText), cfg.openai, cReply))
    /\ UNCHANGED << cText, cfg, cReply >>
    /\ UNCHANGED storeVars
    /\ UNCHANGED extraVars

CallAnalyzeMoodText ==
    /\ cOut' = [Tag("analyze_mood_text", NoCall) EXCEPT
                   !.emotion = analyze_mood_text(cText).emotion,
                   !.confidence = analyze_mood_text(cText).confidence]
    /\ UNCHANGED << cText, cfg, cReply >>
    /\ UNCHANGED storeVars
    /\ UNCHANGED extraVars

NextClassify ==
    \/ CallDetectEmotionText
    \/ CallDetectEmotionFromText
    \/ CallAnalyzeMoodText

SpecClassify == InitClassify /\ [][NextClassify]_vars

-----------------------------------------------------------------------------
(* SpecAuth: one request to a protected endpoint *)

AllConfigured == [openai |-> TRUE, spotify |-> TRUE, tmdb |-> TRUE]

InitAuth ==
    /\ ClassifyIdle
    /\ cfg = AllConfigured
    /\ StoreInit
    /\ auth \in { [NoAuth EXCEPT !.configured = c, !.authorization = h, !.provider = p] :
                     c \in BOOLEAN, h \in Headers, p \in ProviderOutcomes }
    /\ fan = FanIdle
    /\ chat = NoChat
    /\ cb = NoCallback
    /\ wk = NoWorker

\* The dependency raised: FastAPI answers with its status and the handler is
\* not called.
Refused(endpoint, d) ==
    /\ auth' = [auth EXCEPT !.endpoint = endpoint, !.status = d.raised,
                            !.detail = d.detail, !.calls = d.calls]
    /\ UNCHANGED storeVars

\* GET /api/mood/history behind Depends(get_current_user_dependency)
GetMoodHistory ==
    /\ auth.status = 0
    /\ LET d == get_current_user_dependency(auth.configured, auth.authorization,
                                            auth.provider)
       IN  IF d.raised # 0 THEN Refused("GET /api/mood/history", d)
           ELSE /\ \E limit \in Limits, okP \in BOOLEAN, okS \in BOOLEAN :
                       mood_history(d.user.id, limit, okP, okS)
                /\ auth' = [auth EXCEPT !.endpoint = "GET /api/mood/history",
                                        !.status = history'.status,
                                        !.entered = TRUE, !.calls = d.calls]
    /\ UNCHANGED classifyVars
    /\ UNCHANGED << fan, chat, cb, wk >>

\* POST /api/mood behind Depends(get_current_user_dependency)
PostMood ==
    /\ auth.status = 0
    /\ LET d == get_current_user_dependency(auth.configured, auth.authorization,
                                            auth.provider)
       IN  IF d.raised # 0 THEN Refused("POST /api/mood", d)
           ELSE /\ \E text \in StoreTexts, reply \in StoreReplies, so \in StoreSpotify,
                      to \in StoreTmdb, okP \in BOOLEAN, okS \in BOOLEAN :
                       create_mood_snapshot(d.user.id, text, NONE, NONE, reply, so, to,
                                            okP, okS)
                /\ auth' = [auth EXCEPT !.endpoint = "POST /api/mood",
                                        !.status = response'.status,
                                        !.entered = TRUE, !.calls = d.calls]
                /\ UNCHANGED history
    /\ UNCHANGED classifyVars
    /\ UNCHANGED << fan, chat, cb, wk >>

NextAuth ==
    \/ GetMoodHistory
    \/ PostMood

SpecAuth == InitAuth /\ [][NextAuth]_vars

-----------------------------------------------------------------------------
(* SpecFanout: the two fan-outs over the catalogues' outcomes *)

FanSpotify ==
    SubmitSpotify
    \cup { [token |-> "exception", search |-> "ok", tracks |-> 0, playlists |-> 0],
           [token |-> "notoken", search |-> "ok", tracks |-> 0, playlists |-> 0],
           [token |-> "ok", search |-> "status", tracks |-> 0, playlists |-> 0],
           [token |-> "ok", search |-> "ok", tracks |-> MaxItems, playlists |-> 0] }

FanTmdb ==
    SubmitTmdb
    \cup { [discover |-> "ok", search |-> "ok", found |-> 0, searched |-> 0],
           [discover |-> "status", search |-> "exception", found |-> 0, searched |-> 0],
           [discover |-> "status", search |-> "ok", found |-> 0, searched |-> 0],
           [discover |-> "ok", search |-> "ok", found |-> MaxItems, searched |-> 0] }

\* The fan-out of mood.py runs with whatever was detected (NONE: nothing),
\* gather's with a label (emotion: str).
InitFanout ==
    /\ ClassifyIdle
    /\ cfg = AllConfigured
    /\ StoreInit
    /\ auth = NoAuth
    /\ fan \in { FanCreated(ie[1], ie[2], c, so, to) :
                    ie \in {x \in {"mood", "utils"} \X {NONE, "sad", "neutral", "excited"} : x[1] = "utils" => x[2] # NONE},
                    c \in [spotify : BOOLEAN, tmdb : BOOLEAN],
                    so \in FanSpotify, to \in FanTmdb }
    /\ chat = NoChat
    /\ cb = NoCallback
    /\ wk = NoWorker

FanUnchanged ==
    /\ UNCHANGED classifyVars
    /\ UNCHANGED storeVars
    /\ UNCHANGED << auth, chat, cb, wk >>

\* `await tasks[1]` comes after `await tasks[0]` has returned.  gather
\* schedules both tasks at once: its second task starts once the first has run
\* up to its first suspension, and has made its first step before an answer
\* can resume the first.  The caller goes on when both awaits have returned.
StartSpotify ==
    /\ fan.pc = "running"
    /\ fan.sp = "pending"
    /\ fan' = StartedSpotify(fan)
    /\ FanUnchanged

FinishSpotify ==
    /\ fan.sp = "running"
    /\ fan.impl = "utils" => fan.tm # "pending"
    /\ fan' = FinishedSpotify(fan)
    /\ FanUnchanged

StartTmdb ==
    /\ fan.pc = "running"
    /\ fan.tm = "pending"
    /\ IF fan.impl = "mood" THEN fan.sp \in {"none", "done"} ELSE fan.sp # "pending"
    /\ fan' = StartedTmdb(fan)
    /\ FanUnchanged

FinishTmdb ==
    /\ fan.tm = "running"
    /\ fan' = FinishedTmdb(fan)
    /\ FanUnchanged

\* recommendations["spotify"] = spotify_resp or [] / return {"spotify": ...}
ReturnRecommendations ==
    /\ fan.pc = "running"
    /\ fan.sp \in {"none", "done"}
    /\ fan.tm \in {"none", "done"}
    /\ fan' = [fan EXCEPT !.pc = "returned",
                          !.result = [spotify |-> fan.spotify, tmdb |-> fan.tmdb]]
    /\ FanUnchanged

NextFanout ==
    \/ StartSpotify
    \/ FinishSpotify
    \/ StartTmdb
    \/ FinishTmdb
    \/ ReturnRecommendations

SpecFanout == InitFanout /\ [][NextFanout]_vars

-----------------------------------------------------------------------------
(* SpecChat: one chat request over a populated chatmessage table *)

\* Most messages stored before the request.
MaxStored == 7

\* The i-th message stored, by the chat handler on an earlier request: one
\* of the user and session the request is made for (u1, s1), or one of
\* another user or another session lying between them.
StoredRow(i, mine) ==
    LET o == IF mine THEN [user_id |-> "u1", session_id |-> "s1"]
             ELSE IF i % 2 = 1 THEN [user_id |-> "u2", session_id |-> "s1"]
             ELSE [user_id |-> "u1", session_id |-> "s2"]
    IN  ChatRow(Uuid(i), o.user_id, o.session_id, IF i % 2 = 1 THEN "user" ELSE "bot",
                Str("m" \o ToString(i)), NONE, i)

StoredTables ==
    UNION { { {StoredRow(i, f[i]) : i \in 1..n} : f \in [1..n -> BOOLEAN] } :
              n \in 0..MaxStored }

ChatEmoReplies ==
    { [kind |-> "exception", content |-> NoContent],
      [kind |-> "content",
       content |-> [form |-> "text", emotion |-> NONE, confidence |-> NONE,
                    words |-> << "SAD" >>]],
      [kind |-> "content",
       content |-> [form |-> "text", emotion |-> NONE, confidence |-> NONE,
                    words |-> << "fine" >>]] }

InitChat ==
    /\ ClassifyIdle
    /\ cfg \in [openai : BOOLEAN, spotify : {TRUE}, tmdb : {TRUE}]
    /\ mood_snapshot = {}
    /\ chatmessage \in StoredTables
    /\ channel = << >>
    /\ nextId = Cardinality(chatmessage)
    /\ clock = Cardinality(chatmessage)
    /\ response = NoResponse
    /\ history = NoHistory
    /\ log = << >>
    /\ auth = NoAuth
    /\ fan = FanIdle
    /\ chat = NoChat
    /\ cb = NoCallback
    /\ wk = NoWorker

ChatWithAI ==
    /\ chat.status = 0
    /\ \E user_id \in {"u1", NONE}, content \in { << SPACE >>, << SPACE, "anxious" >> },
          session_id \in {NONE, "s1"},
          emo \in ChatEmoReplies, okU \in BOOLEAN, okH \in BOOLEAN,
          llm \in LlmOutcomes, okB \in BOOLEAN :
          LET c == chat_with_ai(cfg.openai, user_id, content, session_id, chatmessage,
                                nextId, clock, emo, okU, okH, llm, okB)
          IN  /\ chatmessage' = c.table
              /\ nextId' = nextId + c.drawn
              /\ clock' = clock + c.ticks
              /\ chat' = c.out
    /\ UNCHANGED << mood_snapshot, channel, response, history, log >>
    /\ UNCHANGED classifyVars
    /\ UNCHANGED << auth, fan, cb, wk >>

SpecChat == InitChat /\ [][ChatWithAI]_vars

-----------------------------------------------------------------------------
(* SpecCallback: snapshots with audio, and the worker's task run for them *)

\* A snapshot submitted with an audio file, with or without a text.
SeedSnapshot ==
    /\ Len(log) < MaxSubmits
    /\ Submit(StoreTexts, {"a.wav"}, {NONE}, StoreReplies, StoreSpotify, StoreTmdb)

\* The task run for a stored snapshot, or for an id that names none.
TranscribeAudioTask ==
    /\ \E snapshot_id \in {r.id : r \in mood_snapshot \cup chatmessage} \cup {Uuid(0)},
          s3ok \in BOOLEAN, whisper \in WhisperOutcomes, reachable \in BOOLEAN :
          LET rows == {r \in mood_snapshot : r.id = snapshot_id}
          IN  cb' = [transcribe_audio_task(snapshot_id, s3ok, whisper, reachable)
                        EXCEPT !.known = rows # {},
                               !.raw_before = IF rows = {} THEN NoText
                                              ELSE (CHOOSE r \in rows : TRUE).content]
    \* No handler is entered for the callback: the tables stay as they are.
    /\ UNCHANGED storeVars
    /\ UNCHANGED classifyVars
    /\ UNCHANGED << auth, fan, chat, wk >>

NextCallback ==
    \/ SeedSnapshot
    \/ TranscribeAudioTask

SpecCallback == Init /\ [][NextCallback]_vars

-----------------------------------------------------------------------------
(* SpecWorker: listeners, published messages and the tasks run for them *)

WorkerUnchanged ==
    /\ UNCHANGED classifyVars
    /\ UNCHANGED storeVars
    /\ UNCHANGED << auth, fan, chat >>

\* Line 78 and lines 65-67: a worker process starts its listener thread.
\* The processes run the same code; they are numbered in the order they start.
StartListener ==
    /\ \E l \in Listeners \ wk.subscribed :
           /\ l = Cardinality(wk.subscribed) + 1
           /\ wk' = [wk EXCEPT !.subscribed = @ \cup {l}]
    /\ UNCHANGED cb
    /\ WorkerUnchanged

\* Some client publishes on the channel.
Publish ==
    /\ Len(wk.msgs) < MaxPublished
    /\ \E kind \in MessageKinds :
           LET i == Len(wk.msgs) + 1
               to == Receivers(wk.subscribed \ wk.stopped)
           IN  wk' = [wk EXCEPT
                         !.msgs = Append(@, Published(kind,
                                     Cardinality(wk.subscribed \ wk.stopped))),
                         !.inbox = [l \in Listeners |->
                                       IF l \in to THEN Append(@[l], i) ELSE @[l]]]
    /\ UNCHANGED cb
    /\ WorkerUnchanged

\* One turn of `for msg in ps.listen()`.
Listen ==
    /\ \E l \in Listeners \ wk.stopped :
           /\ wk.inbox[l] # << >>
           /\ LET i == Head(wk.inbox[l])
                  r == listen_step(wk.msgs[i].kind)
              IN  wk' = [wk EXCEPT
                            !.inbox[l] = Tail(@),
                            !.msgs[i].handled = @ + 1,
                            !.msgs[i].enqueued = IF r.enqueued THEN @ + 1 ELSE @,
                            !.stopped = IF r.alive THEN @ ELSE @ \cup {l}]
    /\ UNCHANGED cb
    /\ WorkerUnchanged

\* What a run meets: the download, the transcription endpoint, the backend.
TaskOutcomes ==
    { [s3ok |-> FALSE, whisper |-> "ok", reachable |-> TRUE],
      [s3ok |-> TRUE, whisper |-> "ok", reachable |-> TRUE],
      [s3ok |-> TRUE, whisper |-> "ok", reachable |-> FALSE],
      [s3ok |-> TRUE, whisper |-> "exception", reachable |-> FALSE] }

\* Celery executes a queued task once: the task has no retry option and
\* never calls self.retry.
RunTask ==
    /\ \E i \in 1..Len(wk.msgs), o \in TaskOutcomes :
           /\ wk.msgs[i].ran < wk.msgs[i].enqueued
           /\ LET r == transcribe_audio_task(Uuid(i), o.s3ok, o.whisper, o.reachable)
              IN  /\ cb' = r
                  /\ wk' = [wk EXCEPT
                               !.msgs[i].ran = @ + 1,
                               !.msgs[i].posts = @ + r.posts]
    /\ WorkerUnchanged

NextWorker ==
    \/ StartListener
    \/ Publish
    \/ Listen
    \/ RunTask

SpecWorker == Init /\ [][NextWorker]_vars

-----------------------------------------------------------------------------
(* Claims on the classifier, checked under SpecClassify *)

ResultPair == Pair(cOut.emotion, cOut.confidence)

\* C1 (as stated): for every text that is empty or whitespace only,
\* detect_emotion_text and analyze_mood_text return exactly neutral with
\* confidence 0.5, and no request is sent to the inference endpoint.
C1_BlankTextIsNeutralWithoutCall ==
    (cOut.fn \in {"detect_emotion_text", "analyze_mood_text"} /\ ~Truthy(Strip(cText)))
        => (ResultPair = Pair("neutral", "0.5") /\ ~cOut.called)

\* C2 (as stated): whenever the inference call for a text that is not blank fails
\* (no credential, exception, non-200 status, unparseable body), the result
\* is the one the keyword heuristic computes for the same text, so the label
\* is one of the closed set and never absent.
C2_FailureFallsBackToHeuristic ==
    (/\ cOut.fn \in {"detect_emotion_text", "detect_emotion_from_text"}
     /\ Truthy(Strip(cText))
     /\ CallFailed(cfg.openai, cReply))
        => /\ cOut.emotion = analyze_mood_text(cText).emotion
           /\ cOut.emotion \in Labels
           /\ cOut.fn = "detect_emotion_text"
                  => cOut.confidence = analyze_mood_text(cText).confidence

\* The words of the vocabulary that carry a cue of each keyword set, as a
\* reader of the text sees them (before any lower-casing).
CalmCue == \E i \in 1..Len(cText) : cText[i] \in {"happy", "unhappy"}
SadCue == \E i \in 1..Len(cText) : cText[i] \in {"SAD", "tired"}
AngryCue == \E i \in 1..Len(cText) : cText[i] = "angry"
AnxiousCue == \E i \in 1..Len(cText) : cText[i] = "anxious"

\* C3 (as stated): the heuristic tests the keyword sets in the order anxious,
\* sad, happy, angry: a text with an anxious cue returns anxious with
\* confidence 0.85 whatever other cues it holds, and a text (not blank)
\* matching no keyword set returns neutral with confidence 0.6.
C3_AnxiousFirstAsStated ==
    cOut.fn = "analyze_mood_text"
        => /\ AnxiousCue => ResultPair = Pair("anxious", "0.85")
           /\ (Truthy(Strip(cText)) /\ ~AnxiousCue /\ ~SadCue /\ ~CalmCue /\ ~AngryCue)
                  => ResultPair = Pair("neutral", "0.6")

\* C3 (amended): the heuristic is a function of the lower-cased text that
\* tests the keyword sets in the order calm/happy, sad, angry, anxious and
\* returns the first category with a matching substring: any happy cue gives
\* calm with 0.9, a text with an anxious cue and no cue of the three earlier
\* sets gives anxious with 0.88, a non-empty text with no cue gives neutral
\* with 0.7 and the empty text neutral with 0.5. The result depends on the
\* text alone, so repeated calls agree.
C3_HeuristicOrder ==
    cOut.fn = "analyze_mood_text"
        => IF cText = << >> THEN ResultPair = Pair("neutral", "0.5")
           ELSE /\ CalmCue => ResultPair = Pair("calm", "0.9")
                /\ (~CalmCue /\ SadCue) => ResultPair = Pair("sad", "0.9")
                /\ (~CalmCue /\ ~SadCue /\ AngryCue) => ResultPair = Pair("angry", "0.85")
                /\ (~CalmCue /\ ~SadCue /\ ~AngryCue /\ AnxiousCue)
                       => ResultPair = Pair("anxious", "0.88")
                /\ (~CalmCue /\ ~SadCue /\ ~AngryCue /\ ~AnxiousCue)
                       => ResultPair = Pair("neutral", "0.7")

\* C3 witness: the heuristic ran on a text that holds an anxious cue next to
\* a cue of an earlier set, written in upper case.
C3_AnxiousBesideEarlierCue ==
    /\ cOut.fn = "analyze_mood_text"
    /\ AnxiousCue
    /\ \E i \in 1..Len(cText) : cText[i] = "SAD"
    /\ cOut.emotion = "sad"

\* C4: classification never raises: for every text and every outcome of the
\* inference call, detect_emotion_text and detect_emotion_from_text return a
\* value to the caller.
C4_ClassificationNeverRaises ==
    cOut.fn \in {"detect_emotion_text", "detect_emotion_from_text"} => ~cOut.raised

\* C4 witness: a request was sent and the endpoint answered 200 with an empty
\* choices list.
C4_EmptyChoicesAbsorbed ==
    /\ cOut.fn \in {"detect_emotion_text", "detect_emotion_from_text"}
    /\ cOut.called
    /\ cReply.kind = "nochoices"
    /\ ResultPair = Pair(NONE, NONE)

-----------------------------------------------------------------------------
(* Claims on one submission, checked under SpecSubmit *)

\* A row of mood_snapshot holds a text or a file name.
HoldsTextOrFile(r) ==
    \/ r.content # NoText /\ Truthy(r.content)
    \/ ~Falsy(r.file_name)

\* A snapshot row of chatmessage holds a text or a file name, not the
\* placeholder.
HoldsContent(r) == r.content # Str("snapshot")

Answered == response.status # 0

\* C5 (as stated): a submission is rejected with 401 when the caller has no
\* user id and with 400 when it supplies neither non-blank text nor a file;
\* a rejected submission classifies nothing, asks no catalogue and writes
\* nothing; so every persisted snapshot has a text or a file reference.
C5_RejectedOrBackedByInput ==
    /\ (Answered /\ Falsy(response.req.user_id)) => response.status = 401
    /\ (Answered /\ ~Falsy(response.req.user_id)
            /\ NothingSupplied(response.req.text, response.req.file))
           => response.status = 400
    /\ response.status \in {400, 401}
           => /\ response.effects = NoEffects
              /\ mood_snapshot = {} /\ chatmessage = {} /\ nextId = 0
    /\ \A r \in mood_snapshot : HoldsTextOrFile(r)
    /\ \A r \in chatmessage : HoldsContent(r)

\* C6: when both snapshot writes fail, the submission still ends with a
\* success response carrying an emotion, the confidence and the
\* recommendations, with saved false and a null snapshot id; a failed write
\* never turns into an error response.
C6_UnsavedStillAnswered ==
    /\ (Answered /\ response.effects.failed = 2)
           => /\ response.status = 200
              /\ response.saved = FALSE
              /\ response.snapshot_id = NONE
              /\ response.detected_emotion # NONE
              /\ mood_snapshot = {} /\ chatmessage = {}
    /\ (Answered /\ response.effects.failed > 0) => response.status = 200

\* C6 witness: both writes failed after an emotion and recommendations of
\* both catalogues were computed.
C6_BothWritesFailed ==
    /\ response.status = 200
    /\ response.effects.failed = 2
    /\ response.detected_emotion = "sad"
    /\ response.spotify # << >>
    /\ response.tmdb # << >>

JobsFor(id) == SelectSeq(channel, LAMBDA m : m.snapshot_id = id)

AllRowIds == {r.id : r \in mood_snapshot} \cup {r.id : r \in chatmessage}

\* C10 (as stated): every accepted submission with audio (here: one whose
\* snapshot was stored under an id) has exactly one job message with its
\* snapshot id and its audio reference on the channel, a message's snapshot
\* id always names an existing snapshot, and a submission without audio
\* publishes nothing.
C10_OneJobPerAudioSubmission ==
    /\ \A i \in 1..Len(log) :
           /\ (~Falsy(log[i].file) /\ log[i].saved)
                  => /\ Len(JobsFor(log[i].snapshot_id)) = 1
                     /\ JobsFor(log[i].snapshot_id)[1].audio_s3_key = log[i].file
           /\ log[i].file = NONE => JobsFor(log[i].snapshot_id) = << >>
    /\ \A i \in 1..Len(channel) : channel[i].snapshot_id \in AllRowIds

\* C14 (as stated): the emotion label returned to the caller and the label
\* stored with a snapshot is one of happy, sad, anxious, angry, calm, tired,
\* neutral, or absent, whatever the inference endpoint answered.
C14_LabelInClosedSet ==
    /\ response.detected_emotion \in Labels \cup {NONE}
    /\ \A r \in mood_snapshot : r.detected_emotion \in Labels \cup {NONE}
    /\ \A r \in chatmessage : r.detected_emotion \in Labels \cup {NONE}

\* C15 (as stated): in every persisted snapshot detected_emotion and
\* confidence are both set or both null.
C15_EmotionAndConfidenceTogether ==
    \A r \in mood_snapshot : (r.detected_emotion = NONE) <=> (r.confidence = NONE)

\* The uuids drawn so far; the tables are empty before the submission.
DrawnIds == {Uuid(k) : k \in 1..nextId}

\* C26: for every submission that is not rejected, saved is true exactly
\* when the snapshot id is non-null, and then exactly one row with that id was
\* inserted, in the primary or in the secondary table and never in both; when
\* saved is false neither table holds a row with an id drawn by the request.
C26_SavedIffOneRowInserted ==
    response.status = 200
       => LET inPrimary == {r \in mood_snapshot : r.id = response.snapshot_id}
              inSecondary == {r \in chatmessage : r.id = response.snapshot_id}
          IN  /\ response.saved <=> response.snapshot_id # NONE
              /\ response.saved
                    => /\ response.snapshot_id \in DrawnIds
                       /\ Cardinality(inPrimary) + Cardinality(inSecondary) = 1
                       /\ Cardinality(mood_snapshot) + Cardinality(chatmessage) = 1
              /\ ~response.saved
                    => /\ \A r \in mood_snapshot : r.id \notin DrawnIds
                       /\ \A r \in chatmessage : r.id \notin DrawnIds

\* C26 witness: the primary INSERT failed and the snapshot was saved in the
\* secondary table under the id returned.
C26_SavedInSecondaryOnly ==
    /\ response.status = 200
    /\ response.saved
    /\ mood_snapshot = {}
    /\ \E r \in chatmessage : r.id = response.snapshot_id

-----------------------------------------------------------------------------
(* Claims on the store, checked under Spec *)

SavedIds == {log[i].snapshot_id : i \in {j \in 1..Len(log) : log[j].saved}}

NumSaved == Cardinality({j \in 1..Len(log) : log[j].saved})

\* C7: when the write to mood_snapshot fails, the same write is tried against
\* chatmessage and, if that succeeds, a valid id is returned; every call
\* draws a fresh id, so two calls return two distinct ids and insert two
\* rows, and no INSERT ever fails on a duplicate key.
C7_FreshIdPerWrite ==
    /\ (response.status = 200 /\ response.effects.failed = 1)
           => /\ response.saved
              /\ \E r \in chatmessage :
                     /\ r.id = response.snapshot_id
                     /\ r.user_id = response.req.user_id
                     /\ r.role = "sys"
              /\ \A r \in mood_snapshot : r.id # response.snapshot_id
    /\ \A i, j \in 1..Len(log) :
           (i # j /\ log[i].saved /\ log[j].saved)
               => log[i].snapshot_id # log[j].snapshot_id
    /\ Cardinality(mood_snapshot) + Cardinality(chatmessage) = NumSaved
    /\ AllRowIds = SavedIds
    /\ \A i \in 1..Len(log) : ~log[i].dup

\* C7 witness: two submissions of one user with the same fields went to
\* chatmessage and left two rows.
C7_TwoFallbackRows ==
    \E r, q \in chatmessage :
        /\ r.id # q.id
        /\ r.user_id = q.user_id
        /\ r.content = q.content
        /\ r.detected_emotion = q.detected_emotion

\* The user a stored row belongs to.
OwnerOf(id) ==
    LET rows == {r \in mood_snapshot : r.id = id}
        msgs == {r \in chatmessage : r.id = id}
    IN  IF rows # {} THEN (CHOOSE r \in rows : TRUE).user_id
        ELSE IF msgs # {} THEN (CHOOSE r \in msgs : TRUE).user_id
        ELSE NONE

\* C8: a history request by user U with limit N returns only records owned
\* by U, newest first, and at most N of them, on the primary read path and
\* on the fallback read path alike.
C8_HistoryScopedOrderedLimited ==
    history.status = 200
        => /\ Len(history.rows) <= history.limit
           /\ \A i \in 1..Len(history.rows) :
                  OwnerOf(history.rows[i].id) = history.user_id
           /\ \A i, j \in 1..Len(history.rows) :
                  i < j => history.rows[i].created_at >= history.rows[j].created_at
           /\ history.path \in {"mood_snapshot", "chatmessage"}

\* C8 witness: the fallback path answered a user while chatmessage held a
\* row of another user.
C8_FallbackAmongOthers ==
    /\ history.status = 200
    /\ history.path = "chatmessage"
    /\ Len(history.rows) = 1
    /\ \E r \in chatmessage : r.user_id # history.user_id

\* C9 (as stated): after a user's submission returned saved: true with a
\* snapshot id, a history request of that user with limit 1, with no later
\* submission of the user in between, returns exactly that snapshot first,
\* whichever write path stored it.
C9_HistoryReturnsLatestSaved ==
    (history.status = 200 /\ history.limit = 1 /\ history.expect # NONE)
        => /\ Len(history.rows) = 1
           /\ history.rows[1].id = history.expect

-----------------------------------------------------------------------------
(* Claims on a protected request, checked under SpecAuth *)

\* The request carries no bearer token or a malformed Authorization header.
NoBearerToken ==
    \/ auth.authorization = NoText
    \/ ~StartsWithBearer(auth.authorization)

\* C18 (as stated): with an identity provider configured, a request that
\* carries no bearer token, a malformed Authorization header or a token the
\* provider rejects with a status other than 200 is answered 401 with a
\* reason, never with a server error, and the handler's body does not run.
C18_BadCredentialsAnswered401 ==
    (auth.status # 0 /\ auth.configured
        /\ (NoBearerToken \/ auth.provider = "status"))
       => /\ auth.status = 401
          /\ auth.detail # NONE
          /\ ~auth.entered

-----------------------------------------------------------------------------
(* Claims on the recommendation fan-out, checked under SpecFanout *)

NoCredentials == ~fan.creds.spotify /\ ~fan.creds.tmdb

\* The caller of the fan-out has been resumed, with a value or an exception.
Resumed == fan.pc \in {"returned", "raised"}

\* C12: with the credentials of both catalogues absent the fan-out returns
\* both lists empty for every emotion label, sends no request to either
\* catalogue and raises nothing; so do the two helpers of mood.py on their own.
C12_NoCredentialsBothEmpty ==
    /\ (NoCredentials /\ fan.pc # "idle")
           => /\ fan.pc # "raised"
              /\ fan.sp \notin {"running", "raised"}
              /\ fan.tm \notin {"running", "raised"}
              /\ fan.calls = 0
              /\ fan.requests = << >>
              /\ fan.pc = "returned" => fan.result = EmptyRecs
    /\ spotify_search_for_mood(fan.emotion, FALSE, fan.so) = RecRet(<< >>, 0)
    /\ tmdb_suggestions_for_mood(fan.emotion, FALSE, fan.to) = RecRet(<< >>, 0)

\* C12 witness: gather has run its two coroutines for the label sad without
\* credentials and the caller holds the structure.
C12_GatherReturnedWithoutCredentials ==
    /\ NoCredentials
    /\ fan.impl = "utils"
    /\ fan.emotion = "sad"
    /\ fan.pc = "returned"
    /\ fan.events = << "spotify:start", "spotify:end", "tmdb:start", "tmdb:end" >>

\* The list a catalogue's query gives on its own, whatever the other does.
OwnSpotify ==
    IF HasTask(fan.impl, fan.emotion, fan.creds.spotify) THEN RunSpotify(fan).items
    ELSE << >>
OwnTmdb ==
    IF HasTask(fan.impl, fan.emotion, fan.creds.tmdb) THEN RunTmdb(fan).items
    ELSE << >>

\* C13 (as stated): a failure of one catalogue (missing credentials,
\* non-success answer, timeout or other exception, at the token exchange or at
\* the search) empties that catalogue's list only; the fan-out never raises
\* and returns the structure with the other catalogue's own list.
C13_OneFailureLeavesTheOther ==
    /\ fan.pc # "raised"
    /\ fan.pc = "returned"
           => /\ fan.result.spotify = OwnSpotify
              /\ fan.result.tmdb = OwnTmdb

\* Both catalogues are asked: each coroutine exists and sends a request.
BothAsked ==
    /\ HasTask(fan.impl, fan.emotion, fan.creds.spotify)
    /\ HasTask(fan.impl, fan.emotion, fan.creds.tmdb)
    /\ Suspends(RunSpotify(fan))
    /\ Suspends(RunTmdb(fan))

\* C19 (as stated): the two queries are both started before either has
\* ended, and the caller is resumed only when both have ended: a failure of
\* the first never leaves the second unfinished or its result unused.
C19_QueriesOverlapAndBothAwaited ==
    /\ BothAsked => ~(fan.sp \in {"done", "raised"} /\ fan.tm = "pending")
    /\ BothAsked => ~(fan.tm \in {"done", "raised"} /\ fan.sp = "pending")
    /\ Resumed => /\ fan.sp \notin {"pending", "running"}
                  /\ fan.tm \notin {"pending", "running"}

\* The step of the title query used last left nothing to return.
LastStepGaveNothing ==
    IF fan.to.discover = "status"
    THEN fan.to.search # "ok" \/ fan.to.searched = 0
    ELSE fan.to.discover = "exception" \/ fan.to.found = 0

\* C20 (as stated): the title query first sends the discovery request with
\* the category ids mapped from the label; it sends the free-text search for
\* the label if and only if the discovery was answered with a non-success
\* status; its list is empty only if the last step used failed or had no items.
C20_DiscoveryThenSearch ==
    (fan.creds.tmdb /\ fan.tm \in {"done", "raised"})
       => /\ Len(fan.requests) \in {1, 2}
          /\ fan.requests[1]
                = TitleRequest("discover/movie", MOOD_TO_TMDB_GENRES(fan.emotion))
          /\ (Len(fan.requests) = 2) <=> (fan.to.discover = "status")
          /\ Len(fan.requests) = 2
                => fan.requests[2] = TitleRequest("search/movie", << fan.emotion >>)
          /\ fan.tmdb = << >> => LastStepGaveNothing

-----------------------------------------------------------------------------
(* Claims on a chat request, checked under SpecChat *)

\* The request got as far as building a prompt for the reply provider.
PromptBuilt == chat.status # 0 /\ chat.prompt # << >>

\* The messages stored when the context was read (the reply is stored
\* later), and those of the request's user and session among them.
AtPrompt == {r \in chatmessage : r.id # chat.stored_bot}
OwnAtPrompt ==
    {r \in AtPrompt : r.user_id = chat.user_id /\ r.session_id = chat.session_id}

ContextRows == {chat.context[i] : i \in 1..Len(chat.context)}

\* The prompt is the system instruction followed by the role and content of
\* at most 6 stored messages of the request's user and session, oldest first.
PromptShape ==
    /\ chat.prompt[1] = SystemMessage
    /\ Len(chat.prompt) = 1 + Len(chat.context)
    /\ Len(chat.context) <= ContextLimit
    /\ \A i \in 1..Len(chat.context) :
           /\ chat.prompt[i + 1] = [role |-> chat.context[i].role,
                                    content |-> chat.context[i].content]
           /\ chat.context[i] \in OwnAtPrompt
    /\ \A i \in 1..Len(chat.context), j \in 1..Len(chat.context) :
           i < j => chat.context[i].created_at < chat.context[j].created_at

\* The messages of the prompt are the 6 most recent of the user and session
\* (all of them when fewer are stored).
MostRecentOwn ==
    /\ Len(chat.context) = Min(ContextLimit, Cardinality(OwnAtPrompt))
    /\ \A r \in OwnAtPrompt \ ContextRows, c \in ContextRows :
           r.created_at < c.created_at

\* C16 (as stated): for every chat request the prompt is the system
\* instruction followed by at most 6 stored messages, all of the caller's
\* user id and the request's session id, the 6 most recent of that user and
\* session by creation time, oldest to newest.
C16_PromptIsLastSixAsStated ==
    PromptBuilt => (PromptShape /\ MostRecentOwn)

\* C16 (amended): as stated when the context query succeeds; when it fails
\* the prompt is the system instruction alone.
C16_PromptIsLastSixWhenRead ==
    PromptBuilt
       => /\ PromptShape
          /\ chat.read_ok => MostRecentOwn
          /\ ~chat.read_ok => chat.prompt = << SystemMessage >>

\* C16 witness: more than 6 messages of the user and session are stored,
\* another's message lies among them in time, and the prompt holds 6.
C16_WindowCutsOlderMessages ==
    /\ chat.status = 200
    /\ chat.read_ok
    /\ Len(chat.context) = ContextLimit
    /\ Cardinality(OwnAtPrompt) > ContextLimit
    /\ \E r \in AtPrompt \ OwnAtPrompt : r.created_at > chat.context[1].created_at
    /\ chat.context[ContextLimit].id = chat.stored_user

\* The rows the request has added to chatmessage.
AddedRows == {r \in chatmessage : r.id \notin chat.before}

\* C17: when the call of the reply provider fails (exception, timeout,
\* status other than 200, unusable body) the request ends with status 500, no
\* assistant message is returned and none is stored, and the user message
\* stored earlier in the request stays stored.
C17_ReplyFailureIsServerError ==
    (PromptBuilt /\ chat.llm # "ok")
       => /\ chat.status = 500
          /\ chat.assistant_message = NoText
          /\ chat.stored_bot = NONE
          /\ \A r \in AddedRows : r.id = chat.stored_user /\ r.role = "user"
          /\ chat.stored_user # NONE
                => \E r \in chatmessage :
                       /\ r.id = chat.stored_user
                       /\ r.user_id = chat.user_id
                       /\ r.session_id = chat.session_id
          /\ chat.before \subseteq {r.id : r \in chatmessage}

\* C17 witness: the provider answered with a status other than 200 after the
\* user message was stored.
C17_FailedAfterUserMessageStored ==
    /\ chat.status = 500
    /\ chat.llm = "status"
    /\ chat.stored_user # NONE
    /\ \E r \in chatmessage : r.id = chat.stored_user /\ r.role = "user"

-----------------------------------------------------------------------------
(* Claims on the transcription callback, checked under SpecCallback *)

\* The worker's callback reached the backend for a stored snapshot.
Delivered == cb.status = "ok" /\ cb.http # 0 /\ cb.known

CallbackSnapshot == CHOOSE r \in mood_snapshot : r.id = cb.snapshot_id

\* C11 (as stated): the callback is applied to the snapshot it names: a
\* snapshot that has a text keeps it (first writer wins), one without a text
\* gets the transcribed text, and the snapshot is marked transcribed with its
\* emotion recomputed (here: the backend accepts the callback).
C11_CallbackFirstWriterWins ==
    Delivered
       => /\ cb.http \in 200..299
          /\ cb.raw_before # NoText => CallbackSnapshot.content = cb.raw_before
          /\ cb.raw_before = NoText
                => CallbackSnapshot.content = Str(cb.transcribed_text)

-----------------------------------------------------------------------------
(* Claims on the prompt's last entry, checked under SpecChat *)

\* C27 (as stated): the prompt of every chat request that reaches the reply
\* provider has the request's own user message as its last entry, also when
\* storing the message or reading the history failed.
C27_PromptEndsWithUserMessage ==
    PromptBuilt
       => chat.prompt[Len(chat.prompt)] = [role |-> "user", content |-> chat.user_msg]

-----------------------------------------------------------------------------
(* Claims on one run of the transcription task, checked under SpecCallback *)

\* The transcripts that stand for a failure of the speech-to-text step.
Sentinels == {"_TRANSCRIPTION_NOT_AVAILABLE_", "_OPENAI_ERR_500", "_OPENAI_EXC_"}

TaskRan == cb.status # "none"

\* C21 (as stated): a run whose download of the audio failed posts the
\* callback for its snapshot once, with a transcript that stands for the
\* failure, and finishes; it does not end as a failed task that posts nothing.
C21_FailedDownloadIsReported ==
    (TaskRan /\ ~cb.download)
       => /\ cb.status = "ok"
          /\ cb.posts = 1
          /\ cb.transcribed_text # NONE

\* C22: in a run whose download succeeded, a failure of the speech-to-text
\* step (no credential, a status other than 200, an exception or timeout)
\* makes the transcript the sentinel of that cause, none of which is the
\* sentinel of another cause or a transcript of the service; the run posts its
\* callback once with it and ends as done.
C22_TranscriptionFailureIsReported ==
    (TaskRan /\ cb.download)
       => /\ cb.status = "ok"
          /\ cb.posts = 1
          /\ cb.whisper = "nokey"
                => /\ cb.transcribed_text = "_TRANSCRIPTION_NOT_AVAILABLE_"
                   /\ cb.engine = "none"
          /\ cb.whisper = "status" => cb.transcribed_text = "_OPENAI_ERR_500"
          /\ cb.whisper = "exception" => cb.transcribed_text = "_OPENAI_EXC_"
          /\ cb.whisper \in {"ok", "notext"} => cb.transcribed_text \notin Sentinels

\* C22 witness: the request to the speech-to-text service raised, and the
\* callback with the sentinel reached the backend.
C22_ExceptionReported ==
    /\ cb.status = "ok"
    /\ cb.download
    /\ cb.whisper = "exception"
    /\ cb.transcribed_text = "_OPENAI_EXC_"
    /\ cb.posts = 1
    /\ cb.http # 0

-----------------------------------------------------------------------------
(* Claims on the worker's listeners and queue, checked under SpecWorker *)

\* The listeners that hold message i, delivered and not yet taken.
Holding(i) ==
    {l \in Listeners : \E j \in 1..Len(wk.inbox[l]) : wk.inbox[l][j] = i}

Malformed(i) == wk.msgs[i].kind # "job"

\* C23: a message that cannot be deserialized or lacks the snapshot id or the
\* audio key is dropped: each listener takes it once and enqueues no task for
\* it; no listener stops, so every well-formed message a listener has taken,
\* also after a malformed one, has a task enqueued by that listener.
C23_MalformedMessageDropped ==
    /\ wk.stopped = {}
    /\ \A i \in 1..Len(wk.msgs) :
           /\ wk.msgs[i].handled + Cardinality(Holding(i)) = wk.msgs[i].k
           /\ Malformed(i) => wk.msgs[i].enqueued = 0 /\ wk.msgs[i].ran = 0
           /\ ~Malformed(i) => wk.msgs[i].enqueued = wk.msgs[i].handled

\* C23 witness: a message that is not JSON was taken by a listener, and the
\* job published after it has its task enqueued by the same listener.
C23_JobEnqueuedAfterMalformed ==
    /\ Len(wk.msgs) = 2
    /\ wk.msgs[1].kind = "notjson"
    /\ wk.msgs[1].k >= 1
    /\ wk.msgs[1].handled = wk.msgs[1].k
    /\ wk.msgs[2].kind = "job"
    /\ wk.msgs[2].enqueued = wk.msgs[2].k
    /\ wk.msgs[2].k >= wk.msgs[1].k

\* The tasks queued and not yet executed.
Queued(w) == [i \in 1..Len(w.msgs) |-> w.msgs[i].enqueued - w.msgs[i].ran]

\* C24: an execution of the task posts the callback at most once; when the
\* post fails the run still ends as done; a task is executed once, and an
\* execution publishes nothing on the channel and queues nothing.
C24_CallbackPostedAtMostOnce ==
    /\ [](/\ cb.posts <= 1
          /\ (cb.status # "none" /\ cb.posts = 1 /\ cb.http = 0) => cb.status = "ok"
          /\ \A i \in 1..Len(wk.msgs) :
                 /\ wk.msgs[i].ran <= wk.msgs[i].enqueued
                 /\ wk.msgs[i].posts <= wk.msgs[i].ran)
    /\ [][RunTask => /\ Len(wk'.msgs) = Len(wk.msgs)
                     /\ wk'.inbox = wk.inbox
                     /\ \E i \in 1..Len(wk.msgs) :
                            Queued(wk') = [Queued(wk) EXCEPT ![i] = @ - 1]]_vars

\* C24 witness: the post of the callback failed, the run ended as done and
\* its task is off the queue.
C24_FailedPostSwallowed ==
    /\ cb.status = "ok"
    /\ cb.posts = 1
    /\ cb.http = 0
    /\ Len(wk.msgs) >= 1
    /\ wk.msgs[1].ran = 1
    /\ wk.msgs[1].enqueued = 1
    /\ wk.msgs[1].posts = 1

\* C25: a message published with k listeners subscribed is received by all
\* k of them; for a job each enqueues a task, so k tasks are queued and run
\* and at most k callbacks are posted for the snapshot: one task per job only
\* with one listener.
C25_EveryListenerEnqueues ==
    \A i \in 1..Len(wk.msgs) :
        /\ wk.msgs[i].k <= Cardinality(wk.subscribed)
        /\ Cardinality(Holding(i)) + wk.msgs[i].handled = wk.msgs[i].k
        /\ wk.msgs[i].posts <= wk.msgs[i].k
        /\ (~Malformed(i) /\ Holding(i) = {})
               => /\ wk.msgs[i].enqueued = wk.msgs[i].k
                  /\ (wk.msgs[i].enqueued = 1) <=> (wk.msgs[i].k = 1)

\* C25 witness: one job published to two listeners, two tasks run and two
\* callbacks posted for its snapshot.
C25_TwoTasksForOneJob ==
    /\ Len(wk.msgs) >= 1
    /\ wk.msgs[1].kind = "job"
    /\ wk.msgs[1].k = 2
    /\ wk.msgs[1].ran = 2
    /\ wk.msgs[1].posts = 2

====
